---- MODULE Spec2Model ----
(***************************************************************************)
(* grillo: the chained-message layer of src/grillo/modem.py.               *)
(*                                                                         *)
(* Two Modem objects share one audio channel: one runs send_message, the   *)
(* other receive_message.  Each chirp transmission is blocking and lasts   *)
(* PACKET_DURATION; when it ends the transport either hands the packet to  *)
(* the callback set registered on the other side or the packet is lost     *)
(* (nobody listening, or the decode failed: on_received gets None, which   *)
(* on_chained_part_received ignores).                                      *)
(*                                                                         *)
(* chirp calls the callbacks in a thread of its own, with no lock shared   *)
(* with the thread that runs receive_message.  Both threads are followed   *)
(* statement by statement: a statement of one may fall between any two of  *)
(* the other, and a callback that has started may still be running when    *)
(* receive_message has returned.  So is receive_packet of the sender, from *)
(* the end of its loop to its return.                                      *)
(*                                                                         *)
(* Time is kept in centiseconds and advances in steps of TICK (half a      *)
(* packet).  The polling loops sleep 0.1 s per iteration, much less than a *)
(* TICK, so a loop iteration that would change the state always runs       *)
(* before the clock advances, and the clock it reads is the time of the    *)
(* last TICK plus the sleep.  The statements of an iteration, of a         *)
(* callback and of a call of the owner take no time of that scale: the     *)
(* clock stands still until they are through (at most MaxLag TICKs may     *)
(* pass before the last statement of a callback).                          *)
(*                                                                         *)
(* Spec follows one send_message and one receive_message over that         *)
(* channel, with one intrusion at most: a packet of another machine heard  *)
(* by the sender, or a call the owner of the receiving Modem makes from    *)
(* another thread.  FairSpec is the exchange with no intrusion, its        *)
(* threads and the clock being scheduled fairly.                           *)
(* CallbackSpec does the same as Spec for two Modems in confirmed mode     *)
(* whose sender calls send_message again.  ListenSpec follows a Modem in   *)
(* listen_for_messages that hears the packets of other machines in any     *)
(* order.  GrilloSpec follows the framing of src/grillo/grillo.py: one     *)
(* framed message sent and read.                                           *)
(***************************************************************************)
EXTENDS Integers, Sequences, FiniteSets, TLC

\* ---------------------------------------------------------------- bounds
\* Largest number of full DATA_LEN-byte chunks in the messages that are sent.
MaxFull == 2
\* The overall timeout (seconds) handed to receive_message, when not 0.
MaxTimeout == 7
\* Saturation of the count of finished rounds.
RoundCap == 3
\* Saturation of the count of lost data packets.
LossCap == 2
\* Largest number of packets listen_for_messages hears from the air.
HeardCap == 3
\* total_chunks of the long message whose last packet is on the air.
LongChain == 40
\* Largest number of tokens a text, a file name or a file's contents is made of.
MaxTokens == 2
\* Number of calls of send_message that are followed after the first.
LaterSends == 1
\* Largest number of TICKs the transport's thread is kept off the processor
\* between the first and the last statement of one callback.
MaxLag == 0
\* calls of its other public functions the owner of the receiving Modem
\* makes while receive_message runs, or after it
OwnerCalls == 1
\* what comes on top of one exchange, counted together: a foreign packet
\* heard by the sender, a call of the owner of the receiving Modem, a later
\* call of send_message
Intrusions == 1

\* ------------------------------------------------------- program constants
DATA_LEN == 30
\* timedelta(seconds=4.66), in centiseconds
PACKET_DURATION == 466
\* time.sleep(0.1), in centiseconds
SLEEP == 10
\* the largest chain_len send_message accepts
MAX_CHAIN == 255
\* Python's None where an integer is expected
None == -2
\* receive_message(self, timeout=300), in seconds
DEFAULT_TIMEOUT == 300
\* the largest len(message) Grillo.send_message of grillo.py accepts
MAX_MESSAGE == 32

\* Python's None where a byte string is expected (no byte string holds None).
NoPacket == <<None>>

TICK == PACKET_DURATION \div 2
\* self.PACKET_DURATION * 2, the wait of _get_packets_to_retry
ACK_WAIT == PACKET_DURATION * 2
\* self.PACKET_DURATION * 1.5, the delta _reset_timeout sets
ATTEMPT_TIMEOUT == (PACKET_DURATION * 3) \div 2

Min(a, b) == IF a < b THEN a ELSE b
Max(a, b) == IF a > b THEN a ELSE b

\* ----------------------------------------------------------------- inputs
\* The message of length n that is sent: byte i differs from its neighbours
\* and from the byte DATA_LEN places further, so that a wrong slice, a wrong
\* order or a missing chunk changes the reassembled bytes.
Msg(n) == [i \in 1..n |-> (7 * i) % 256]

Lens == {DATA_LEN * n : n \in 0..MaxFull}
          \cup {DATA_LEN * n + 1 : n \in 0..(MaxFull - 1)}
          \cup {MAX_CHAIN * DATA_LEN, MAX_CHAIN * DATA_LEN + 1}

Messages == {Msg(n) : n \in Lens}

Timeouts == {0, MaxTimeout}

\* What the sender's on_received may get from a foreign source while it
\* waits for an ack: an empty ack, an ack naming chunks, a data packet,
\* noise, and None (a failed decode).
ForeignPackets == {<<0>>, <<0, 1, 9>>, <<2, 0, 65>>, <<7>>, NoPacket}

VARIABLES
  \* ---- the sending Modem (send_message)
  spc,                \* where send_message is
  with_confirmation,  \* Modem.with_confirmation: the option (--brave or not)
                      \* both ends were started with; only send_message reads it
  message,            \* the argument of send_message
  chain_len,          \* local of send_message
  packets_to_send,    \* local of send_message: the list of the current round
  send_pos,           \* position of the for loop of _send_packets in that list
  receiver_packet,    \* SinglePacketReceiver.packet of receive_packet
  wait_elapsed,       \* now - start in receive_packet
  ack_msg,            \* local of _get_packets_to_retry: what receive_packet returned
  \* ---- the channel
  s_air, s_left,      \* packet the sender is transmitting, time left
  r_air, r_left,      \* packet the receiver is transmitting, time left
  \* ---- the receiving Modem (receive_message)
  rpc,                \* where receive_message is
  timeout,            \* the argument of receive_message (seconds)
  timeout_elapsed,    \* now - self.timeout_start
  timeout_delta,      \* self.timeout_delta
  chained_total_parts,
  chained_parts,
  last_expected_part, \* local of receive_message
  chained_message,    \* local of receive_message, and its return value
  scan_total,         \* the range() of the comprehension or the join that runs
  scan_pos,           \* the part_number it looks up next
  missing_parts,      \* the list of chained_missing_parts, as far as built
  combined,           \* the join of chained_combine, as far as built
  \* ---- bookkeeping (history, not program state)
  round_sent,         \* packets handed to the transport in the current round
  rounds,             \* finished calls of _send_packets
  lost_data,          \* data packets that reached no callback
  lost_idx,           \* chunk index of the first of them
  lost_round,         \* round (0 = first transmission) of the first of them
  lost_acks,          \* an ack did not reach the sender's receive_packet
  foreign,            \* a foreign packet was heard by the sender
  rx_total,           \* time since receive_message was called
  wait_got,           \* the packets line 47 has put in the slot of the
                      \* running receive_packet
  \* ---- listen_for_messages of the receiving Modem
  callback_message,   \* the argument of the running callback(message)
  heard,              \* (history) the packets on_received got while the
                      \* running receive_message was listening
  heard_count,        \* (history) how many it got, repetitions counted
  heard_all,          \* (history) how many on_received got since
                      \* listen_for_messages was called
  last_heard,         \* (history) the last of them
  stored,             \* (history) the packets whose part line 223 has put
                      \* in the buffer since that receive_message started
                      \* (heard, last_heard and stored are kept up to the
                      \* first other call of the owner, and empty from then on)
  part_elapsed,       \* (history) time since a part was last put in the
                      \* buffer or send_ack last returned
  \* ---- Grillo of src/grillo/grillo.py: one framed chirp message
  gpc,                \* where the Grillo pair is
  kind, payload,      \* the arguments of Grillo.send_message
  grillo_message,     \* the serialized message handed to chirp.send
  read_kind, read_payload,   \* what read_message returned
  name, file_contents,       \* the locals of receive_file
  send_file_name, send_file_contents,  \* file_path.name and the bytes read
                                       \* by send_file
  \* ---- the transport's thread on the receiving side
  cb_pc,              \* where the running on_chained_part_received is
  cb_packet,          \* its argument
  cb_lag,             \* (history) TICKs that passed since it was entered
  later_sends,        \* calls of send_message made after the first returned
  \* ---- the thread of the owner of the receiving Modem
  callbacks,          \* the callback set chirp.set_callbacks was last given
  owner_pc,           \* where the owner's call of reset_chained_status is
  owner_calls         \* (history) calls the owner has made

sender_vars == <<spc, with_confirmation, message, chain_len, packets_to_send,
                 send_pos, receiver_packet, wait_elapsed, ack_msg>>
air_vars == <<s_air, s_left, r_air, r_left>>
clock_vars == <<timeout, timeout_elapsed, timeout_delta>>
buffer_vars == <<chained_total_parts, chained_parts>>
local_vars == <<last_expected_part, chained_message>>
scan_vars == <<scan_total, scan_pos, missing_parts, combined>>
receiver_vars == <<rpc, clock_vars, buffer_vars, local_vars, scan_vars>>
book_vars == <<round_sent, rounds, lost_data, lost_idx, lost_round,
               lost_acks, foreign, rx_total, wait_got>>
listen_vars == <<callback_message, heard, heard_count, heard_all, last_heard, stored,
                 part_elapsed>>
grillo_vars == <<gpc, kind, payload, grillo_message, read_kind, read_payload,
                 name, file_contents, send_file_name, send_file_contents>>
callback_vars == <<cb_pc, cb_packet, cb_lag, later_sends>>
owner_vars == <<callbacks, owner_pc, owner_calls>>
vars == <<sender_vars, air_vars, receiver_vars, book_vars, listen_vars,
          grillo_vars, callback_vars, owner_vars>>

\* ------------------------------------------------------------ pure helpers
\* Python's s[a:b] for 0 <= a <= b
Slice(s, a, b) == SubSeq(s, a + 1, Min(b, Len(s)))

\* range(n) as a list
RECURSIVE Range(_)
Range(n) == IF n <= 0 THEN <<>> ELSE Append(Range(n - 1), n - 1)

_get_chain_len(size) == size \div DATA_LEN + 1

\* the packet _send_packets builds for index i
Packet(msg, cl, i) == <<cl, i>> \o Slice(msg, DATA_LEN * i, DATA_LEN * (i + 1))

\* [p for p in range(from, total) if p not in parts]
RECURSIVE MissingFrom(_, _, _)
MissingFrom(parts, total, from) ==
  IF from >= total THEN <<>>
  ELSE (IF from \in DOMAIN parts THEN <<>> ELSE <<from>>)
         \o MissingFrom(parts, total, from + 1)

\* mutant: the range starts at 1
chained_missing_parts_from_1 == MissingFrom(chained_parts, chained_total_parts, 1)

chained_missing_parts == MissingFrom(chained_parts, chained_total_parts, 0)

\* b''.join(parts[p] for p in range(from, total))
RECURSIVE CombineFrom(_, _, _)
CombineFrom(parts, total, from) ==
  IF from >= total THEN <<>>
  ELSE parts[from] \o CombineFrom(parts, total, from + 1)

chained_combine == CombineFrom(chained_parts, chained_total_parts, 0)

\* what reading an attribute that was never assigned raises
AttributeError == "AttributeError"

\* (now - self.timeout_start) > self.timeout_delta, read after the loop's
\* sleep; self.timeout_delta exists once line 170 or line 227 has run
_timeout_expired ==
  IF timeout_delta = None THEN AttributeError
  ELSE timeout_elapsed + SLEEP > timeout_delta

\* now - start > timeout in receive_packet, read after the loop's sleep
WaitExpired == wait_elapsed + SLEEP > ACK_WAIT

\* the thread of receive_message is between line 163 and line 173
Starting == {"line_163", "line_163_77", "line_166", "line_168", "line_170"}

\* the lines of the loop of receive_message, lines 175 to 199
Loop ==
  {"loop", "line_180", "line_182", "line_182_timeout", "line_184", "line_235",
   "line_186", "line_241", "line_195", "send_ack_retry", "send_ack_done",
   "line_191", "line_228", "line_198"}

\* the thread of receive_message is between line 175 and line 199
Running == rpc \in Loop

\* the thread of receive_message is between line 201 and line 204
Returning == {"line_201", "line_202", "line_202_77"}

\* the callback set of receive_message (line 165) is the one registered
Listening == callbacks = "on_chained_part_received"

\* the owner of the receiving Modem has called none of its other public
\* functions since receive_message was first called
Undisturbed == owner_calls = 0

\* what has come on top of the exchange so far
Intruded == (IF foreign THEN 1 ELSE 0) + owner_calls + later_sends

\* ------------------------------------------------------------------- Init
Init ==
  /\ spc = "idle"
  /\ with_confirmation \in BOOLEAN
  /\ message = NoPacket
  /\ chain_len = None
  /\ packets_to_send = <<>>
  /\ send_pos = 0
  /\ receiver_packet = NoPacket
  /\ wait_elapsed = 0
  /\ ack_msg = NoPacket
  /\ s_air = NoPacket /\ s_left = 0
  /\ r_air = NoPacket /\ r_left = 0
  /\ rpc = "idle"
  /\ timeout = 0
  /\ timeout_elapsed = 0
  /\ timeout_delta = None
  /\ chained_total_parts = None
  /\ chained_parts = <<>>
  /\ last_expected_part = None
  /\ chained_message = NoPacket
  /\ scan_total = None
  /\ scan_pos = 0
  /\ missing_parts = <<>>
  /\ combined = <<>>
  /\ round_sent = <<>>
  /\ rounds = 0
  /\ lost_data = 0
  /\ lost_idx = None
  /\ lost_round = None
  /\ lost_acks = FALSE
  /\ foreign = FALSE
  /\ rx_total = 0
  /\ wait_got = {}
  /\ callback_message = NoPacket
  /\ heard = {}
  /\ heard_count = 0
  /\ heard_all = 0
  /\ last_heard = NoPacket
  /\ stored = {}
  /\ part_elapsed = 0
  /\ gpc = "idle"
  /\ kind = NoPacket /\ payload = NoPacket
  /\ grillo_message = NoPacket
  /\ read_kind = NoPacket /\ read_payload = NoPacket
  /\ name = NoPacket /\ file_contents = NoPacket
  /\ send_file_name = NoPacket /\ send_file_contents = NoPacket
  /\ cb_pc = "idle"
  /\ cb_packet = NoPacket
  /\ cb_lag = 0
  /\ later_sends = 0
  /\ callbacks = "NoCallbacks"
  /\ owner_pc = "idle"
  /\ owner_calls = 0

\* ----------------------------------------------------------------- sender
\* send_message, lines 83 to 87: the size check and the first list
SendMessage(m) ==
  /\ spc = "idle"
  /\ message' = m
  /\ LET cl == _get_chain_len(Len(m)) IN
       IF cl > MAX_CHAIN
         THEN /\ spc' = "MessageTooLongException"
              /\ UNCHANGED <<chain_len, packets_to_send, send_pos>>
         ELSE /\ spc' = "send_packets"
              /\ chain_len' = cl
              /\ packets_to_send' = Range(cl)
              /\ send_pos' = 1
  /\ UNCHANGED <<with_confirmation, receiver_packet, wait_elapsed, ack_msg>>
  /\ UNCHANGED <<air_vars, receiver_vars, book_vars>>
  /\ UNCHANGED <<listen_vars, grillo_vars, callback_vars, owner_vars>>

\* _send_packets, lines 115 to 119: build the next packet of the list and
\* hand it to chirp.send(blocking=True)
SendPacket ==
  /\ spc = "send_packets"
  /\ LET p == Packet(message, chain_len, packets_to_send[send_pos]) IN
       /\ s_air' = p
       /\ round_sent' = Append(round_sent, p)
  /\ s_left' = PACKET_DURATION
  /\ spc' = "sending"
  /\ UNCHANGED <<with_confirmation, message, chain_len, packets_to_send,
                 send_pos, receiver_packet, wait_elapsed, ack_msg>>
  /\ UNCHANGED <<r_air, r_left, receiver_vars>>
  /\ UNCHANGED <<rounds, lost_data, lost_idx, lost_round, lost_acks,
                 foreign, rx_total, wait_got>>
  /\ UNCHANGED <<listen_vars, grillo_vars, callback_vars, owner_vars>>

\* what send_message does when chirp.send returns: the for loop of
\* _send_packets goes on, or the round ends (lines 90 to 93) and
\* receive_packet starts (lines 143 to 146)
AfterSend ==
  IF send_pos < Len(packets_to_send)
    THEN /\ send_pos' = send_pos + 1
         /\ spc' = "send_packets"
         /\ UNCHANGED <<receiver_packet, wait_elapsed, rounds, wait_got>>
    ELSE /\ rounds' = Min(rounds + 1, RoundCap)
         /\ UNCHANGED send_pos
         /\ IF with_confirmation
              THEN /\ spc' = "receive_packet"
                   /\ receiver_packet' = NoPacket
                   /\ wait_elapsed' = 0
                   /\ wait_got' = {}
              ELSE /\ spc' = "done"
                   /\ UNCHANGED <<receiver_packet, wait_elapsed, wait_got>>

\* the sender's transmission ends and the transport's thread of the other
\* side, which runs one callback at a time, calls on_received with the
\* packet (lines 47 to 49) and enters on_chained_part_received (lines 214
\* to 217)
DataDelivered ==
  /\ spc = "sending" /\ s_left = 0
  /\ Listening
  /\ cb_pc = "idle"
  /\ cb_pc' = "line_219"
  /\ cb_packet' = s_air
  /\ cb_lag' = 0
  /\ AfterSend
  /\ s_air' = NoPacket
  /\ UNCHANGED <<with_confirmation, message, chain_len, packets_to_send, ack_msg>>
  /\ UNCHANGED <<s_left, r_air, r_left>>
  /\ UNCHANGED receiver_vars
  /\ UNCHANGED <<round_sent, lost_data, lost_idx, lost_round,
                 lost_acks, foreign, rx_total>>
  /\ UNCHANGED <<listen_vars, grillo_vars, later_sends, owner_vars>>

\* the sender's transmission ends and on_chained_part_received does not get
\* the packet: nobody hears it, another callback set is registered, or the
\* decode fails and on_received is called with None, which line 214 drops
DataLost ==
  /\ spc = "sending" /\ s_left = 0
  /\ AfterSend
  /\ s_air' = NoPacket
  /\ lost_data' = Min(lost_data + 1, LossCap)
  /\ lost_idx' = IF lost_data = 0 THEN s_air[2] ELSE lost_idx
  /\ lost_round' = IF lost_data = 0 THEN rounds ELSE lost_round
  /\ UNCHANGED <<with_confirmation, message, chain_len, packets_to_send, ack_msg>>
  /\ UNCHANGED <<s_left, r_air, r_left>>
  /\ UNCHANGED receiver_vars
  /\ UNCHANGED <<round_sent, lost_acks, foreign, rx_total>>
  /\ UNCHANGED <<listen_vars, grillo_vars, callback_vars, owner_vars>>

\* raise MessageAckIsBroken(), as a value of _get_packets_to_retry
AckIsBroken == <<None, None>>

\* mutant: silence is taken as a request for every chunk
_get_packets_to_retry_silence(got) ==
  IF got = NoPacket THEN Range(chain_len)
  ELSE IF got[1] = 0 THEN Tail(got)
  ELSE AckIsBroken

\* _get_packets_to_retry, lines 101 to 109, on what receive_packet returned
_get_packets_to_retry(got) ==
  IF got = NoPacket THEN <<>>
  ELSE IF got[1] = 0 THEN Tail(got)
  ELSE AckIsBroken

\* send_message, lines 88 to 91: the call of _get_packets_to_retry and the
\* while test on the list it returns
GetPacketsToRetry(got) ==
  /\ ack_msg' = got
  /\ receiver_packet' = NoPacket
  /\ LET packets_to_retry == _get_packets_to_retry(got) IN
       IF packets_to_retry = AckIsBroken
         THEN /\ spc' = "MessageAckIsBroken"
              /\ UNCHANGED <<packets_to_send, send_pos, round_sent>>
         ELSE /\ packets_to_send' = packets_to_retry
              /\ IF Len(packets_to_retry) > 0
                   THEN /\ spc' = "send_packets"
                        /\ send_pos' = 1
                        /\ round_sent' = <<>>
                   ELSE /\ spc' = "done"
                        /\ UNCHANGED <<send_pos, round_sent>>

\* on_received of the SinglePacketReceiver of receive_packet may run: its
\* callback set is the one registered (lines 144 to 156), or the transport's
\* thread called it before line 156 and has still to run line 47
SenderHears == spc \in {"receive_packet", "line_156", "line_157"}

\* SinglePacketReceiver.on_received, line 47: the payload, None included, is
\* put over whatever the slot holds
on_received(p) ==
  /\ receiver_packet' = p
  /\ wait_got' = (IF p = NoPacket THEN wait_got ELSE wait_got \cup {p})

\* receive_packet, lines 148 to 154: the loop ends, by the test of line 148
\* on a slot that holds a packet or by the break of line 154
receive_packet_line_148 ==
  /\ spc = "receive_packet"
  /\ receiver_packet # NoPacket \/ WaitExpired
  /\ spc' = "line_156"
  /\ UNCHANGED <<with_confirmation, message, chain_len, packets_to_send,
                 send_pos, receiver_packet, wait_elapsed, ack_msg>>
  /\ UNCHANGED <<air_vars, receiver_vars, book_vars>>
  /\ UNCHANGED <<listen_vars, grillo_vars, callback_vars, owner_vars>>

\* receive_packet, line 156: stop_listening
receive_packet_line_156 ==
  /\ spc = "line_156"
  /\ spc' = "line_157"
  /\ UNCHANGED <<with_confirmation, message, chain_len, packets_to_send,
                 send_pos, receiver_packet, wait_elapsed, ack_msg>>
  /\ UNCHANGED <<air_vars, receiver_vars, book_vars>>
  /\ UNCHANGED <<listen_vars, grillo_vars, callback_vars, owner_vars>>

\* receive_packet, line 157: the slot is read again and returned, to line 101
\* of _get_packets_to_retry
receive_packet_line_157 ==
  /\ spc = "line_157"
  /\ GetPacketsToRetry(receiver_packet)
  /\ UNCHANGED <<with_confirmation, message, chain_len, wait_elapsed>>
  /\ UNCHANGED <<air_vars, receiver_vars>>
  /\ UNCHANGED <<rounds, lost_data, lost_idx, lost_round, lost_acks, foreign,
                 rx_total, wait_got>>
  /\ UNCHANGED <<listen_vars, grillo_vars, callback_vars, owner_vars>>

\* SinglePacketReceiver.on_received, lines 43 to 49, for what a foreign
\* source makes the transport hand over during receive_packet.  One such
\* packet is followed.
ForeignHeard(p) ==
  /\ SenderHears
  /\ ~foreign
  /\ Intruded < Intrusions
  /\ on_received(p)
  /\ foreign' = TRUE
  /\ UNCHANGED <<spc, with_confirmation, message, chain_len, packets_to_send,
                 send_pos, wait_elapsed, ack_msg>>
  /\ UNCHANGED <<air_vars, receiver_vars>>
  /\ UNCHANGED <<round_sent, rounds, lost_data, lost_idx, lost_round,
                 lost_acks, rx_total>>
  /\ UNCHANGED <<listen_vars, grillo_vars, callback_vars, owner_vars>>

\* --------------------------------------------------------------- receiver
\* The thread that runs receive_message, one statement at a time: the
\* transport's thread and the owner's thread may run between any two of
\* them.  rpc names the line that thread runs next.

\* receive_message is called: the argument, and the locals of lines 172 and
\* 173, which no other thread sees
ReceiveMessage(t) ==
  /\ rpc = "idle"
  /\ rpc' = "line_163"
  /\ timeout' = t
  /\ chained_message' = NoPacket
  /\ last_expected_part' = None
  /\ rx_total' = 0
  /\ UNCHANGED <<timeout_elapsed, timeout_delta, buffer_vars, scan_vars>>
  /\ UNCHANGED <<sender_vars, air_vars>>
  /\ UNCHANGED <<round_sent, rounds, lost_data, lost_idx, lost_round,
                 lost_acks, foreign, wait_got>>
  /\ UNCHANGED <<listen_vars, grillo_vars, callback_vars, owner_vars>>

\* reset_chained_status, line 76, called at line 163, line 202 or line 258
reset_chained_status_line_76 ==
  /\ rpc \in {"line_163", "line_202", "line_258"}
  /\ chained_total_parts' = None
  /\ rpc' = (IF rpc = "line_163" THEN "line_163_77"
             ELSE IF rpc = "line_202" THEN "line_202_77"
             ELSE "line_258_77")
  /\ UNCHANGED <<clock_vars, chained_parts, local_vars, scan_vars>>
  /\ UNCHANGED <<sender_vars, air_vars, book_vars>>
  /\ UNCHANGED <<listen_vars, grillo_vars, callback_vars, owner_vars>>

\* reset_chained_status, line 77; after line 202 receive_message returns
\* chained_message (line 204)
reset_chained_status_line_77 ==
  /\ rpc \in {"line_163_77", "line_202_77", "line_258_77"}
  /\ chained_parts' = <<>>
  /\ rpc' = (IF rpc = "line_163_77" THEN "line_166"
             ELSE IF rpc = "line_202_77" THEN "returned"
             ELSE "line_256")
  /\ UNCHANGED <<clock_vars, chained_total_parts, local_vars, scan_vars>>
  /\ UNCHANGED <<sender_vars, air_vars, book_vars>>
  /\ UNCHANGED <<listen_vars, grillo_vars, callback_vars, owner_vars>>

\* reset_chained_status, lines 76 and 77, in the thread of receive_message
reset_chained_status ==
  \/ reset_chained_status_line_76
  \/ reset_chained_status_line_77

\* receive_message, lines 165 and 166: set_callbacks
receive_message_line_166 ==
  /\ rpc = "line_166"
  /\ callbacks' = "on_chained_part_received"
  /\ rpc' = "line_168"
  /\ UNCHANGED <<clock_vars, buffer_vars, local_vars, scan_vars>>
  /\ UNCHANGED <<sender_vars, air_vars, book_vars>>
  /\ UNCHANGED <<listen_vars, grillo_vars, callback_vars, owner_pc, owner_calls>>

\* receive_message, line 168: self.timeout_start = datetime.now()
receive_message_line_168 ==
  /\ rpc = "line_168"
  /\ timeout_elapsed' = 0
  /\ rpc' = "line_170"
  /\ UNCHANGED <<timeout, timeout_delta, buffer_vars, local_vars, scan_vars>>
  /\ UNCHANGED <<sender_vars, air_vars, book_vars>>
  /\ UNCHANGED <<listen_vars, grillo_vars, callback_vars, owner_vars>>

\* receive_message, lines 169 and 170: the overall timeout_delta, put over
\* what a callback that ran since line 166 has set
receive_message_line_170 ==
  /\ rpc = "line_170"
  /\ timeout_delta' = (IF timeout # 0 THEN 100 * timeout ELSE timeout_delta)
  /\ rpc' = "loop"
  /\ UNCHANGED <<timeout, timeout_elapsed, buffer_vars, local_vars, scan_vars>>
  /\ UNCHANGED <<sender_vars, air_vars, book_vars>>
  /\ UNCHANGED <<listen_vars, grillo_vars, callback_vars, owner_vars>>

\* line 179: the value last_expected_part has at line 182
ExpectedPart ==
  IF last_expected_part = None THEN chained_total_parts - 1
  ELSE last_expected_part

\* lines 178 to 182 on the state as it is, when the test of line 182 is true
AckDue ==
  /\ chained_total_parts # None
  /\ \/ ExpectedPart \in DOMAIN chained_parts
     \/ (timeout_delta # None /\ _timeout_expired)

\* lines 178 to 182 on the state as it is, when line 182 reads
\* self.timeout_delta and no statement has assigned it: receive_message was
\* called with a timeout of 0 and no callback has reached line 227
NoTimeoutDelta ==
  /\ chained_total_parts # None
  /\ ExpectedPart \notin DOMAIN chained_parts
  /\ timeout_delta = None

\* an iteration of the loop of receive_message that meets no statement of
\* another thread changes the state
PollActs ==
  \/ chained_total_parts # None /\ last_expected_part = None
  \/ NoTimeoutDelta
  \/ AckDue
  \/ timeout # 0 /\ _timeout_expired

\* An iteration of the loop is followed when it changes the state or when
\* another thread is inside a function of the Modem, so that its statements
\* may fall between those of the iteration.  (A callback or a call of the
\* owner that starts during an iteration has touched nothing when it
\* starts: the same statements follow when it starts just before.)
IterationDue == PollActs \/ cb_pc # "idle" \/ owner_pc # "idle"

\* receive_message, lines 176 and 178: the sleep is over and the test of
\* line 178 reads self.chained_total_parts
receive_message_line_178 ==
  /\ rpc = "loop"
  /\ IterationDue
  /\ rpc' = (IF chained_total_parts # None THEN "line_180" ELSE "line_198")
  /\ UNCHANGED <<clock_vars, buffer_vars, local_vars, scan_vars>>
  /\ UNCHANGED <<sender_vars, air_vars, book_vars>>
  /\ UNCHANGED <<listen_vars, grillo_vars, callback_vars, owner_vars>>

\* receive_message, lines 179 and 180: self.chained_total_parts is read
\* again, and None - 1 raises TypeError
receive_message_line_180 ==
  /\ rpc = "line_180"
  /\ IF last_expected_part # None
       THEN /\ rpc' = "line_182"
            /\ UNCHANGED last_expected_part
       ELSE IF chained_total_parts = None
              THEN /\ rpc' = "TypeError"
                   /\ UNCHANGED last_expected_part
              ELSE /\ rpc' = "line_182"
                   /\ last_expected_part' = chained_total_parts - 1
  /\ UNCHANGED <<clock_vars, buffer_vars, chained_message, scan_vars>>
  /\ UNCHANGED <<sender_vars, air_vars, book_vars>>
  /\ UNCHANGED <<listen_vars, grillo_vars, callback_vars, owner_vars>>

\* receive_message, line 182, the first operand of the or: the lookup of
\* last_expected_part in self.chained_parts
receive_message_line_182 ==
  /\ rpc = "line_182"
  /\ rpc' = (IF last_expected_part \in DOMAIN chained_parts
               THEN "line_184" ELSE "line_182_timeout")
  /\ UNCHANGED <<clock_vars, buffer_vars, local_vars, scan_vars>>
  /\ UNCHANGED <<sender_vars, air_vars, book_vars>>
  /\ UNCHANGED <<listen_vars, grillo_vars, callback_vars, owner_vars>>

\* receive_message, line 182, the second operand: _timeout_expired(), lines
\* 207 and 208.  (Line 227 of a callback always comes before its line 228,
\* so timeout_start and timeout_delta read one after the other are a pair
\* that some state held.)
receive_message_line_182_timeout ==
  /\ rpc = "line_182_timeout"
  /\ rpc' = (IF timeout_delta = None THEN AttributeError
             ELSE IF _timeout_expired THEN "line_184"
             ELSE "line_198")
  /\ UNCHANGED <<clock_vars, buffer_vars, local_vars, scan_vars>>
  /\ UNCHANGED <<sender_vars, air_vars, book_vars>>
  /\ UNCHANGED <<listen_vars, grillo_vars, callback_vars, owner_vars>>

\* receive_message, line 184, and chained_missing_parts, line 234:
\* range(self.chained_total_parts), which raises TypeError on None
receive_message_line_184 ==
  /\ rpc = "line_184"
  /\ IF chained_total_parts = None
       THEN /\ rpc' = "TypeError"
            /\ UNCHANGED scan_vars
       ELSE /\ rpc' = (IF chained_total_parts = 0 THEN "line_186" ELSE "line_235")
            /\ scan_total' = chained_total_parts
            /\ scan_pos' = 0
            /\ missing_parts' = <<>>
            /\ UNCHANGED combined
  /\ UNCHANGED <<clock_vars, buffer_vars, local_vars>>
  /\ UNCHANGED <<sender_vars, air_vars, book_vars>>
  /\ UNCHANGED <<listen_vars, grillo_vars, callback_vars, owner_vars>>

\* chained_missing_parts, line 235: the lookup of one part_number in
\* self.chained_parts; after the last one the list is returned
chained_missing_parts_line_235 ==
  /\ rpc = "line_235"
  /\ missing_parts' =
       missing_parts \o MissingFrom(chained_parts, scan_pos + 1, scan_pos)
  /\ scan_pos' = scan_pos + 1
  /\ rpc' = (IF scan_pos + 1 < scan_total THEN "line_235" ELSE "line_186")
  /\ UNCHANGED <<scan_total, combined>>
  /\ UNCHANGED <<clock_vars, buffer_vars, local_vars>>
  /\ UNCHANGED <<sender_vars, air_vars, book_vars>>
  /\ UNCHANGED <<listen_vars, grillo_vars, callback_vars, owner_vars>>

\* send_ack, lines 131 to 134
AckPacket(parts) == <<0>> \o parts

\* line 188: missing_parts[:self.DATA_LEN]
parts_to_resend(list) == SubSeq(list, 1, Min(DATA_LEN, Len(list)))

\* lines 188 to 190: the ack that asks for missing_parts is handed to the
\* transport
AskFor ==
  LET to_resend == parts_to_resend(missing_parts) IN
    /\ last_expected_part' = to_resend[Len(to_resend)]
    /\ r_air' = AckPacket(to_resend)
    /\ r_left' = PACKET_DURATION
    /\ rpc' = "send_ack_retry"

\* receive_message, line 186: with missing parts, lines 187 to 190; with
\* none, line 194 and chained_combine, line 242: range(self.chained_total_parts),
\* which raises TypeError on None
receive_message_line_186 ==
  /\ rpc = "line_186"
  /\ IF missing_parts # <<>>
       THEN /\ AskFor
            /\ scan_total' = None
            /\ scan_pos' = 0
            /\ missing_parts' = <<>>
            /\ UNCHANGED combined
       ELSE /\ UNCHANGED <<last_expected_part, r_air, r_left, missing_parts>>
            /\ IF chained_total_parts = None
                 THEN /\ rpc' = "TypeError"
                      /\ UNCHANGED <<scan_total, scan_pos, combined>>
                 ELSE /\ rpc' = "line_241"
                      /\ scan_total' = chained_total_parts
                      /\ scan_pos' = 0
                      /\ combined' = <<>>
  /\ UNCHANGED <<clock_vars, buffer_vars, chained_message>>
  /\ UNCHANGED <<sender_vars, s_air, s_left, book_vars>>
  /\ UNCHANGED <<listen_vars, grillo_vars, callback_vars, owner_vars>>

\* chained_combine, line 241: self.chained_parts[part_number] for one
\* part_number, which raises KeyError when the buffer does not hold it; after
\* the last one the join is the chained_message of line 194
chained_combine_line_241 ==
  /\ rpc = "line_241"
  /\ IF scan_pos >= scan_total
       THEN /\ chained_message' = combined
            /\ rpc' = "line_195"
            /\ scan_total' = None
            /\ scan_pos' = 0
            /\ combined' = <<>>
       ELSE IF scan_pos \notin DOMAIN chained_parts
              THEN /\ rpc' = "KeyError"
                   /\ UNCHANGED <<chained_message, scan_total, scan_pos, combined>>
              ELSE /\ combined' =
                        combined \o CombineFrom(chained_parts, scan_pos + 1, scan_pos)
                   /\ scan_pos' = scan_pos + 1
                   /\ rpc' = "line_241"
                   /\ UNCHANGED <<chained_message, scan_total>>
  /\ UNCHANGED <<clock_vars, buffer_vars, last_expected_part, missing_parts>>
  /\ UNCHANGED <<sender_vars, air_vars, book_vars>>
  /\ UNCHANGED <<listen_vars, grillo_vars, callback_vars, owner_vars>>

\* receive_message, line 195: the ack without entries is handed to the
\* transport
receive_message_line_195 ==
  /\ rpc = "line_195"
  /\ r_air' = AckPacket(<<>>)
  /\ r_left' = PACKET_DURATION
  /\ rpc' = "send_ack_done"
  /\ UNCHANGED <<clock_vars, buffer_vars, local_vars, scan_vars>>
  /\ UNCHANGED <<sender_vars, s_air, s_left, book_vars>>
  /\ UNCHANGED <<listen_vars, grillo_vars, callback_vars, owner_vars>>

\* the blocking chirp.send of send_ack returns: to line 191 after the ack of
\* line 190, to line 196 and its break after the ack of line 195
AfterAck ==
  rpc' = (IF rpc = "send_ack_retry" THEN "line_191" ELSE "line_201")

\* the receiver's transmission ends and the sender's on_received gets the ack
AckDelivered ==
  /\ rpc \in {"send_ack_retry", "send_ack_done"} /\ r_left = 0
  /\ SenderHears
  /\ on_received(r_air)
  /\ r_air' = NoPacket
  /\ AfterAck
  /\ UNCHANGED <<spc, with_confirmation, message, chain_len, packets_to_send,
                 send_pos, wait_elapsed, ack_msg>>
  /\ UNCHANGED <<s_air, s_left, r_left>>
  /\ UNCHANGED <<clock_vars, buffer_vars, local_vars, scan_vars>>
  /\ UNCHANGED <<round_sent, rounds, lost_data, lost_idx, lost_round,
                 lost_acks, foreign, rx_total>>
  /\ UNCHANGED <<listen_vars, grillo_vars, callback_vars, owner_vars>>

\* the receiver's transmission ends and no callback of the sender is called
AckLost ==
  /\ rpc \in {"send_ack_retry", "send_ack_done"} /\ r_left = 0
  /\ r_air' = NoPacket
  /\ AfterAck
  /\ lost_acks' = TRUE
  /\ UNCHANGED sender_vars
  /\ UNCHANGED <<s_air, s_left, r_left>>
  /\ UNCHANGED <<clock_vars, buffer_vars, local_vars, scan_vars>>
  /\ UNCHANGED <<round_sent, rounds, lost_data, lost_idx, lost_round,
                 foreign, rx_total, wait_got>>
  /\ UNCHANGED <<listen_vars, grillo_vars, callback_vars, owner_vars>>

\* the receiver's transmission ends as a failed decode at the sender: the
\* transport calls on_received(None, channel) on the SinglePacketReceiver of
\* receive_packet
AckDecodeFailed ==
  /\ rpc \in {"send_ack_retry", "send_ack_done"} /\ r_left = 0
  /\ SenderHears
  /\ on_received(NoPacket)
  /\ r_air' = NoPacket
  /\ AfterAck
  /\ lost_acks' = TRUE
  /\ UNCHANGED <<spc, with_confirmation, message, chain_len, packets_to_send,
                 send_pos, wait_elapsed, ack_msg>>
  /\ UNCHANGED <<s_air, s_left, r_left>>
  /\ UNCHANGED <<clock_vars, buffer_vars, local_vars, scan_vars>>
  /\ UNCHANGED <<round_sent, rounds, lost_data, lost_idx, lost_round,
                 foreign, rx_total>>
  /\ UNCHANGED <<listen_vars, grillo_vars, callback_vars, owner_vars>>

\* receive_message, line 191, and _reset_timeout, line 227
_reset_timeout_line_227 ==
  /\ rpc = "line_191"
  /\ timeout_delta' = ATTEMPT_TIMEOUT
  /\ rpc' = "line_228"
  /\ UNCHANGED <<timeout, timeout_elapsed, buffer_vars, local_vars, scan_vars>>
  /\ UNCHANGED <<sender_vars, air_vars, book_vars>>
  /\ UNCHANGED <<listen_vars, grillo_vars, callback_vars, owner_vars>>

\* _reset_timeout, line 228, called at line 191
_reset_timeout_line_228 ==
  /\ rpc = "line_228"
  /\ timeout_elapsed' = 0
  /\ part_elapsed' = 0
  /\ rpc' = "line_198"
  /\ UNCHANGED <<timeout, timeout_delta, buffer_vars, local_vars, scan_vars>>
  /\ UNCHANGED <<sender_vars, air_vars, book_vars>>
  /\ UNCHANGED <<callback_message, heard, heard_count, heard_all, last_heard, stored>>
  /\ UNCHANGED <<grillo_vars, callback_vars, owner_vars>>

\* _reset_timeout, lines 227 and 228, in the thread of receive_message
_reset_timeout ==
  \/ _reset_timeout_line_227
  \/ _reset_timeout_line_228

\* receive_message, lines 198 and 199: the overall timeout
receive_message_line_198 ==
  /\ rpc = "line_198"
  /\ rpc' = (IF timeout # 0 /\ _timeout_expired THEN "line_201" ELSE "loop")
  /\ UNCHANGED <<clock_vars, buffer_vars, local_vars, scan_vars>>
  /\ UNCHANGED <<sender_vars, air_vars, book_vars>>
  /\ UNCHANGED <<listen_vars, grillo_vars, callback_vars, owner_vars>>

\* receive_message, line 201: stop_listening; the record of what the
\* callbacks of this call got ends
receive_message_line_201 ==
  /\ rpc = "line_201"
  /\ callbacks' = "NoCallbacks"
  /\ rpc' = "line_202"
  /\ heard' = {}
  /\ heard_count' = 0
  /\ last_heard' = NoPacket
  /\ stored' = {}
  /\ part_elapsed' = 0
  /\ UNCHANGED <<callback_message, heard_all>>
  /\ UNCHANGED <<clock_vars, buffer_vars, local_vars, scan_vars>>
  /\ UNCHANGED <<sender_vars, air_vars, book_vars>>
  /\ UNCHANGED <<grillo_vars, callback_vars, owner_pc, owner_calls>>

\* receive_message, lines 163 to 204, after its call
receive_message ==
  \/ reset_chained_status
  \/ receive_message_line_166
  \/ receive_message_line_168
  \/ receive_message_line_170
  \/ receive_message_line_178
  \/ receive_message_line_180
  \/ receive_message_line_182
  \/ receive_message_line_182_timeout
  \/ receive_message_line_184
  \/ chained_missing_parts_line_235
  \/ receive_message_line_186
  \/ chained_combine_line_241
  \/ receive_message_line_195
  \/ _reset_timeout
  \/ receive_message_line_198
  \/ receive_message_line_201

\* ------------------------------------------- the transport's thread
\* on_chained_part_received, one statement at a time: each of them is a step
\* of the transport's thread, taken whenever that thread is scheduled.  The
\* thread runs one callback at a time.

\* lines 219 to 221
CallbackTotal ==
  /\ cb_pc = "line_219"
  /\ chained_total_parts' =
       IF chained_total_parts = None THEN cb_packet[1] ELSE chained_total_parts
  /\ cb_pc' = "line_223"
  /\ UNCHANGED <<rpc, clock_vars, chained_parts, local_vars, scan_vars>>
  /\ UNCHANGED <<sender_vars, air_vars, book_vars, listen_vars, grillo_vars,
                 cb_packet, cb_lag, later_sends, owner_vars>>

\* mutant: a part that comes again is appended to the one stored
CallbackStore_append ==
  /\ cb_pc = "line_223"
  /\ chained_parts' =
       [p \in DOMAIN chained_parts \cup {cb_packet[2]} |->
          IF p = cb_packet[2]
            THEN (IF p \in DOMAIN chained_parts THEN chained_parts[p] ELSE <<>>)
                   \o SubSeq(cb_packet, 3, Len(cb_packet))
            ELSE chained_parts[p]]
  /\ cb_pc' = "line_227"
  /\ stored' = (IF Undisturbed THEN stored \cup {cb_packet} ELSE stored)
  /\ part_elapsed' = 0
  /\ UNCHANGED <<rpc, clock_vars, chained_total_parts, local_vars, scan_vars>>
  /\ UNCHANGED <<callback_message, heard, heard_count, heard_all, last_heard>>
  /\ UNCHANGED <<sender_vars, air_vars, book_vars, grillo_vars,
                 cb_packet, cb_lag, later_sends, owner_vars>>

\* mutant: the part is stored under its arrival position
CallbackStore_arrival ==
  /\ cb_pc = "line_223"
  /\ chained_parts' =
       [p \in DOMAIN chained_parts \cup {Cardinality(DOMAIN chained_parts)} |->
          IF p = Cardinality(DOMAIN chained_parts)
            THEN SubSeq(cb_packet, 3, Len(cb_packet))
            ELSE chained_parts[p]]
  /\ cb_pc' = "line_227"
  /\ stored' = (IF Undisturbed THEN stored \cup {cb_packet} ELSE stored)
  /\ part_elapsed' = 0
  /\ UNCHANGED <<rpc, clock_vars, chained_total_parts, local_vars, scan_vars>>
  /\ UNCHANGED <<callback_message, heard, heard_count, heard_all, last_heard>>
  /\ UNCHANGED <<sender_vars, air_vars, book_vars, grillo_vars,
                 cb_packet, cb_lag, later_sends, owner_vars>>

\* line 223
CallbackStore ==
  /\ cb_pc = "line_223"
  /\ chained_parts' =
       [p \in DOMAIN chained_parts \cup {cb_packet[2]} |->
          IF p = cb_packet[2] THEN SubSeq(cb_packet, 3, Len(cb_packet))
          ELSE chained_parts[p]]
  /\ cb_pc' = "line_227"
  /\ stored' = (IF Undisturbed THEN stored \cup {cb_packet} ELSE stored)
  /\ part_elapsed' = 0
  /\ UNCHANGED <<rpc, clock_vars, chained_total_parts, local_vars, scan_vars>>
  /\ UNCHANGED <<callback_message, heard, heard_count, heard_all, last_heard>>
  /\ UNCHANGED <<sender_vars, air_vars, book_vars, grillo_vars,
                 cb_packet, cb_lag, later_sends, owner_vars>>

\* line 227, the first statement of _reset_timeout
CallbackDelta ==
  /\ cb_pc = "line_227"
  /\ timeout_delta' = ATTEMPT_TIMEOUT
  /\ cb_pc' = "line_228"
  /\ UNCHANGED <<rpc, timeout, timeout_elapsed, buffer_vars, local_vars,
                 scan_vars>>
  /\ UNCHANGED <<sender_vars, air_vars, book_vars, listen_vars, grillo_vars,
                 cb_packet, cb_lag, later_sends, owner_vars>>

\* line 228, the second statement of _reset_timeout; the callback returns
CallbackClock ==
  /\ cb_pc = "line_228"
  /\ timeout_elapsed' = 0
  /\ cb_pc' = "idle"
  /\ cb_packet' = NoPacket
  /\ cb_lag' = 0
  /\ UNCHANGED <<rpc, timeout, timeout_delta, buffer_vars, local_vars,
                 scan_vars>>
  /\ UNCHANGED <<sender_vars, air_vars, book_vars, listen_vars, grillo_vars,
                 later_sends, owner_vars>>

\* on_chained_part_received, lines 219 to 224, and _reset_timeout
on_chained_part_received ==
  \/ CallbackTotal
  \/ CallbackStore
  \/ CallbackDelta
  \/ CallbackClock

\* ------------------------------------------------ the owner's thread
\* receive_message blocks the thread that called it.  Another thread of the
\* program that owns the receiving Modem may meanwhile, or afterwards, call
\* the other public functions that touch what receive_message uses:
\* reset_chained_status, stop_listening and listen_for_packets.  Before
\* receive_message is called such a call leaves nothing that lines 163 to
\* 166 do not overwrite, and it is left out.

\* the first line of the functions the owner may call
OwnerFunctions == {"line_76", "line_264", "line_249"}

\* the owner calls one of them, which has run no statement yet; the record
\* of what the callbacks got and stored ends with the call
OwnerCall(f) ==
  /\ owner_pc = "idle"
  /\ owner_calls < OwnerCalls
  /\ Intruded < Intrusions
  /\ rpc # "idle"
  /\ owner_pc' = f
  /\ owner_calls' = owner_calls + 1
  /\ heard' = {}
  /\ last_heard' = NoPacket
  /\ stored' = {}
  /\ UNCHANGED <<callback_message, heard_count, heard_all, part_elapsed>>
  /\ UNCHANGED <<sender_vars, air_vars, receiver_vars, book_vars, grillo_vars,
                 callback_vars, callbacks>>

\* reset_chained_status, line 76, in the owner's thread
OwnerLine76 ==
  /\ owner_pc = "line_76"
  /\ chained_total_parts' = None
  /\ owner_pc' = "line_77"
  /\ UNCHANGED <<rpc, clock_vars, chained_parts, local_vars, scan_vars>>
  /\ UNCHANGED <<sender_vars, air_vars, book_vars, listen_vars, grillo_vars,
                 callback_vars, callbacks, owner_calls>>

\* reset_chained_status, line 77, in the owner's thread
OwnerLine77 ==
  /\ owner_pc = "line_77"
  /\ chained_parts' = <<>>
  /\ owner_pc' = "idle"
  /\ UNCHANGED <<rpc, clock_vars, chained_total_parts, local_vars, scan_vars>>
  /\ UNCHANGED <<sender_vars, air_vars, book_vars, listen_vars, grillo_vars,
                 callback_vars, callbacks, owner_calls>>

\* stop_listening, line 264
stop_listening ==
  /\ owner_pc = "line_264"
  /\ callbacks' = "NoCallbacks"
  /\ owner_pc' = "idle"
  /\ UNCHANGED <<sender_vars, air_vars, receiver_vars, book_vars, listen_vars,
                 grillo_vars, callback_vars, owner_calls>>

\* listen_for_packets, lines 248 and 249, with a callback of the owner
listen_for_packets ==
  /\ owner_pc = "line_249"
  /\ callbacks' = "callback"
  /\ owner_pc' = "idle"
  /\ UNCHANGED <<sender_vars, air_vars, receiver_vars, book_vars, listen_vars,
                 grillo_vars, callback_vars, owner_calls>>

\* the statements of the owner's call
OwnerStatement ==
  \/ OwnerLine76
  \/ OwnerLine77
  \/ stop_listening
  \/ listen_for_packets

OwnerStep ==
  \/ \E f \in OwnerFunctions : OwnerCall(f)
  \/ OwnerStatement

\* ------------------------------------------------------------------- time
\* the lines at which the thread of receive_message sleeps or is blocked in
\* chirp.send, so that time passes
Waiting == {"loop", "send_ack_retry", "send_ack_done"}

\* some step of a thread is due now
Urgent ==
  \/ spc \in {"send_packets", "line_156", "line_157"}
  \/ spc = "sending" /\ s_left = 0
  \/ spc = "receive_packet" /\ (receiver_packet # NoPacket \/ WaitExpired)
  \/ rpc = "loop" /\ PollActs
  \/ rpc \in (Starting \cup Loop \cup Returning) \ Waiting
  \/ rpc \in {"send_ack_retry", "send_ack_done"} /\ r_left = 0
  \/ rpc \in {"line_258", "line_258_77", "line_256"}
  \/ owner_pc # "idle"

\* the largest value a read of the receiver's clock is compared with
ElapsedCap == Max(ATTEMPT_TIMEOUT, 100 * MaxTimeout) + TICK

\* the largest value of rx_total that is told apart
TotalCap == 100 * MaxTimeout + 3 * PACKET_DURATION

\* TICK centiseconds pass: the transmissions and the sleeps of the loops
Tick ==
  /\ ~Urgent
  /\ cb_pc = "idle" \/ cb_lag < MaxLag
  /\ cb_lag' = IF cb_pc = "idle" THEN 0 ELSE cb_lag + 1
  /\ spc \in {"sending", "receive_packet"} \/ Running
  /\ s_left' = Max(0, s_left - TICK)
  /\ r_left' = Max(0, r_left - TICK)
  /\ wait_elapsed' = IF spc = "receive_packet"
                       THEN Min(wait_elapsed + TICK, ACK_WAIT + TICK)
                       ELSE wait_elapsed
  /\ timeout_elapsed' = IF Running
                          THEN Min(timeout_elapsed + TICK, ElapsedCap)
                          ELSE timeout_elapsed
  /\ rx_total' = IF Running
                   THEN Min(rx_total + TICK, TotalCap)
                   ELSE rx_total
  /\ UNCHANGED <<spc, with_confirmation, message, chain_len, packets_to_send,
                 send_pos, receiver_packet, ack_msg>>
  /\ UNCHANGED <<s_air, r_air>>
  /\ UNCHANGED <<rpc, timeout, timeout_delta, buffer_vars, local_vars, scan_vars>>
  /\ UNCHANGED <<round_sent, rounds, lost_data, lost_idx, lost_round,
                 lost_acks, foreign, wait_got>>
  /\ UNCHANGED <<listen_vars, grillo_vars, cb_pc, cb_packet, later_sends, owner_vars>>

\* ------------------------------------------------------------------- Next
SenderStep ==
  \/ SendPacket
  \/ DataDelivered
  \/ DataLost
  \/ receive_packet_line_148
  \/ receive_packet_line_156
  \/ receive_packet_line_157

ReceiverStep ==
  \/ receive_message
  \/ AckDelivered
  \/ AckLost
  \/ AckDecodeFailed

Next ==
  \/ \E m \in Messages : SendMessage(m)
  \/ \E t \in Timeouts : ReceiveMessage(t)
  \/ \E p \in ForeignPackets : ForeignHeard(p)
  \/ SenderStep
  \/ ReceiverStep
  \/ on_chained_part_received
  \/ OwnerStep
  \/ Tick

Spec == Init /\ [][Next]_vars

\* The exchange of one send_message and one receive_message when no packet of
\* another machine is in the air and the owner makes no other call: the
\* behaviours the claim of termination is about.
FairNext ==
  \/ \E m \in Messages : SendMessage(m)
  \/ \E t \in Timeouts : ReceiveMessage(t)
  \/ SenderStep
  \/ ReceiverStep
  \/ on_chained_part_received
  \/ Tick

\* The threads run and the clock advances; whether a transmission is heard is
\* the channel's choice and has no fairness.
FairSpec ==
  /\ Init
  /\ [][FairNext]_vars
  /\ WF_vars(SenderStep)
  /\ WF_vars(ReceiverStep)
  /\ WF_vars(on_chained_part_received)
  /\ WF_vars(Tick)

\* ------------------------------------------------- listen_for_messages
\* A Modem that runs listen_for_messages while other machines chirp: the
\* transport's thread hands its callback any packet of the air, in any order
\* and at any time, and no sender of this model hears its acks.  The owner's
\* thread is the one listen_for_messages keeps for good, and no other thread
\* of the owner is followed here.

\* the message whose packets are followed through the reassembly
ListenMessage == Msg(2 * DATA_LEN + 1)

\* the packets send_message emits for msg in its first round
PacketsOf(msg) ==
  {Packet(msg, _get_chain_len(Len(msg)), i) :
     i \in 0..(_get_chain_len(Len(msg)) - 1)}

\* the last packet of a long message of another sender
LongPacket == <<LongChain, LongChain - 1, 1>>

\* a second message, of other bytes and another length
OtherMessage == [i \in 1..(DATA_LEN + 1) |-> (11 * i + 3) % 256]

\* what the air may carry
HeardPackets ==
  PacketsOf(ListenMessage) \cup PacketsOf(OtherMessage) \cup {LongPacket}

\* Modem.__init__ with the default of the command line (confirmed mode)
ListenInit == Init /\ with_confirmation

\* listen_for_messages, line 257: callback(message) with what receive_message
\* returned, up to its return
HandToCallback ==
  /\ rpc = "returned"
  /\ rpc' = "line_258"
  /\ callback_message' = chained_message
  /\ UNCHANGED <<clock_vars, buffer_vars, local_vars, scan_vars>>
  /\ UNCHANGED <<heard, heard_count, heard_all, last_heard, stored, part_elapsed>>
  /\ UNCHANGED <<sender_vars, air_vars, book_vars, grillo_vars, callback_vars, owner_vars>>

\* listen_for_messages, lines 255 and 256: receive_message is called with
\* the default timeout; the record of what its callbacks get starts
ListenForMessages ==
  /\ rpc \in {"idle", "line_256"}
  /\ rpc' = "line_163"
  /\ callback_message' = NoPacket
  /\ timeout' = DEFAULT_TIMEOUT
  /\ chained_message' = NoPacket
  /\ last_expected_part' = None
  /\ heard' = {}
  /\ heard_count' = 0
  /\ last_heard' = NoPacket
  /\ stored' = {}
  /\ part_elapsed' = 0
  /\ UNCHANGED heard_all
  /\ UNCHANGED <<timeout_elapsed, timeout_delta, buffer_vars, scan_vars>>
  /\ UNCHANGED <<sender_vars, air_vars, book_vars, grillo_vars, callback_vars,
                 owner_vars>>

\* SinglePacketReceiver.on_received of receive_message, lines 43 to 49, for
\* a packet of the air: the transport's thread enters
\* on_chained_part_received (lines 214 to 217)
Heard(p) ==
  /\ Listening
  /\ heard_all < HeardCap
  /\ cb_pc = "idle"
  /\ cb_pc' = "line_219"
  /\ cb_packet' = p
  /\ cb_lag' = 0
  /\ heard' = (IF Undisturbed THEN heard \cup {p} ELSE heard)
  /\ heard_count' = heard_count + 1
  /\ heard_all' = heard_all + 1
  /\ last_heard' = (IF Undisturbed THEN p ELSE last_heard)
  /\ UNCHANGED <<callback_message, stored, part_elapsed>>
  /\ UNCHANGED receiver_vars
  /\ UNCHANGED <<sender_vars, air_vars, book_vars, grillo_vars, later_sends, owner_vars>>

\* TICK centiseconds pass for the listening Modem
ListenTick ==
  /\ ~Urgent
  /\ cb_pc = "idle" \/ cb_lag < MaxLag
  /\ cb_lag' = IF cb_pc = "idle" THEN 0 ELSE cb_lag + 1
  /\ Running
  /\ r_left' = Max(0, r_left - TICK)
  /\ timeout_elapsed' =
       Min(timeout_elapsed + TICK, 100 * DEFAULT_TIMEOUT + TICK)
  /\ part_elapsed' = Min(part_elapsed + TICK, ATTEMPT_TIMEOUT + TICK)
  /\ UNCHANGED <<rpc, timeout, timeout_delta, buffer_vars, local_vars, scan_vars>>
  /\ UNCHANGED <<sender_vars, s_air, s_left, r_air, book_vars>>
  /\ UNCHANGED <<callback_message, heard, heard_count, heard_all, last_heard, stored>>
  /\ UNCHANGED <<grillo_vars, cb_pc, cb_packet, later_sends, owner_vars>>

ListenNext ==
  \/ HandToCallback
  \/ ListenForMessages
  \/ \E p \in HeardPackets : Heard(p)
  \/ on_chained_part_received
  \/ receive_message
  \/ AckLost
  \/ ListenTick

ListenSpec == ListenInit /\ [][ListenNext]_vars

\* ------------------------------------------------- Grillo (grillo.py)
\* One Grillo sends a text, the clipboard or a file as one framed chirp
\* message and another Grillo's callback reads it.  Byte strings are
\* sequences of byte values, and a str is held as the bytes of its UTF-8
\* encoding.

\* b"|"
HEADER_SEPARATOR == <<124>>
\* b"<NAME>"
FILE_NAME_SEPARATOR == <<60, 78, 65, 77, 69, 62>>

\* MessageKind: the members and the encoded value of each
MessageKinds == {"TEXT", "CLIPBOARD", "FILE"}
KindValue(k) ==
  IF k = "TEXT" THEN <<116>> ELSE IF k = "CLIPBOARD" THEN <<99>> ELSE <<102>>

\* MessageKind(value): the member with that value, or ValueError
MessageKind(value) ==
  IF \E k \in MessageKinds : KindValue(k) = value
    THEN CHOOSE k \in MessageKinds : KindValue(k) = value
    ELSE "ValueError"

\* the pieces texts and file names are made of: b"a", b"|", b"<",
\* b"NAME>" and b"<NAME>"
Tokens == {<<97>>, HEADER_SEPARATOR, <<60>>, <<78, 65, 77, 69, 62>>,
           FILE_NAME_SEPARATOR}

\* the pieces the bytes of a file are made of: those, and b"\xff"
ContentTokens == Tokens \cup {<<255>>}

RECURSIVE TokenStrings(_)
TokenStrings(n) ==
  IF n = 0 THEN {<<>>}
  ELSE TokenStrings(n - 1)
         \cup {s \o t : s \in TokenStrings(n - 1), t \in Tokens}

Texts == TokenStrings(MaxTokens) \cup {[i \in 1..(MAX_MESSAGE - 1) |-> 97]}

RECURSIVE ContentStrings(_)
ContentStrings(n) ==
  IF n = 0 THEN {<<>>}
  ELSE ContentStrings(n - 1)
         \cup {s \o t : s \in ContentStrings(n - 1), t \in ContentTokens}

\* what the file system gives send_file for a path: the bytes of the file,
\* or no file of that name
NoFile == NoPacket
Files == ContentStrings(MaxTokens) \cup {NoFile}

\* bytes.decode("utf-8") raises UnicodeDecodeError unless the bytes are
\* well-formed UTF-8; when they are, the str it returns is held as them
RECURSIVE WellFormedUtf8(_)
WellFormedUtf8(s) ==
  LET cont(i, lo, hi) == Len(s) >= i /\ s[i] >= lo /\ s[i] <= hi
      rest(n) == WellFormedUtf8(SubSeq(s, n + 1, Len(s)))
  IN
  IF s = <<>> THEN TRUE
  ELSE IF s[1] <= 127 THEN rest(1)
  ELSE IF s[1] >= 194 /\ s[1] <= 223 THEN cont(2, 128, 191) /\ rest(2)
  ELSE IF s[1] = 224 THEN cont(2, 160, 191) /\ cont(3, 128, 191) /\ rest(3)
  ELSE IF s[1] = 237 THEN cont(2, 128, 159) /\ cont(3, 128, 191) /\ rest(3)
  ELSE IF s[1] >= 225 /\ s[1] <= 239
    THEN cont(2, 128, 191) /\ cont(3, 128, 191) /\ rest(3)
  ELSE IF s[1] = 240
    THEN cont(2, 144, 191) /\ cont(3, 128, 191) /\ cont(4, 128, 191) /\ rest(4)
  ELSE IF s[1] >= 241 /\ s[1] <= 243
    THEN cont(2, 128, 191) /\ cont(3, 128, 191) /\ cont(4, 128, 191) /\ rest(4)
  ELSE IF s[1] = 244
    THEN cont(2, 128, 143) /\ cont(3, 128, 191) /\ cont(4, 128, 191) /\ rest(4)
  ELSE FALSE

\* sep occurs in s
Contains(s, sep) ==
  \E i \in 1..(Len(s) - Len(sep) + 1) : SubSeq(s, i, i + Len(sep) - 1) = sep

\* bytes.split(sep): the parts between the occurrences of sep, found from
\* the left without overlap; cur is the part being read
RECURSIVE SplitFrom(_, _, _)
SplitFrom(s, sep, cur) ==
  IF s = <<>> THEN <<cur>>
  ELSE IF Len(s) >= Len(sep) /\ SubSeq(s, 1, Len(sep)) = sep
    THEN <<cur>> \o SplitFrom(SubSeq(s, Len(sep) + 1, Len(s)), sep, <<>>)
    ELSE SplitFrom(Tail(s), sep, Append(cur, Head(s)))

split(s, sep) == SplitFrom(s, sep, <<>>)

\* sep.join(parts)
RECURSIVE join(_, _)
join(sep, parts) ==
  IF parts = <<>> THEN <<>>
  ELSE IF Len(parts) = 1 THEN parts[1]
  ELSE parts[1] \o sep \o join(sep, Tail(parts))

\* mutant: the payload is the second part only (parts[1])
read_message_second_part(serialized) ==
  LET parts == split(serialized, HEADER_SEPARATOR) IN
    <<MessageKind(parts[1]), IF Len(parts) > 1 THEN parts[2] ELSE <<>> >>

\* read_message, lines 84 to 89: the pair (kind, payload)
read_message(serialized) ==
  LET parts == split(serialized, HEADER_SEPARATOR) IN
    <<MessageKind(parts[1]), join(HEADER_SEPARATOR, Tail(parts))>>

\* receive_file, lines 162 to 165: the pair (name, file_contents)
receive_file(p) ==
  LET parts == split(p, FILE_NAME_SEPARATOR) IN
    <<parts[1], join(FILE_NAME_SEPARATOR, Tail(parts))>>

\* Grillo.send_message, lines 73 to 78
Grillo_send_message(k, p) ==
  /\ kind' = k
  /\ payload' = p
  /\ LET framed == KindValue(k) \o HEADER_SEPARATOR \o p IN
       IF Len(framed) > MAX_MESSAGE
         THEN /\ gpc' = "MessageTooLongException"
              /\ UNCHANGED grillo_message
         ELSE /\ gpc' = "sent"
              /\ grillo_message' = framed
  /\ UNCHANGED <<read_kind, read_payload, name, file_contents>>
  /\ UNCHANGED <<sender_vars, air_vars, receiver_vars, book_vars, listen_vars,
                 callback_vars, owner_vars>>

\* send_text, lines 91 to 95
send_text(text) ==
  /\ gpc = "idle"
  /\ Grillo_send_message("TEXT", text)
  /\ UNCHANGED <<send_file_name, send_file_contents>>

\* send_clipboard, lines 97 to 101, with what pyperclip.paste() returned
send_clipboard(paste) ==
  /\ gpc = "idle"
  /\ Grillo_send_message("CLIPBOARD", paste)
  /\ UNCHANGED <<send_file_name, send_file_contents>>

\* the state send_file leaves when file_path.open('rb') raises at line 110
OpenFails(error) ==
  /\ gpc' = error
  /\ UNCHANGED <<kind, payload, grillo_message, read_kind, read_payload, name,
                 file_contents, send_file_name, send_file_contents>>
  /\ UNCHANGED <<sender_vars, air_vars, receiver_vars, book_vars, listen_vars,
                 callback_vars, owner_vars>>

\* send_file, lines 103 to 119, for a path of one component and what the
\* file system holds under it: Path("") is the directory itself
send_file(file_name, file) ==
  /\ gpc = "idle"
  /\ IF file_name = <<>> THEN OpenFails("IsADirectoryError")
     ELSE IF file = NoFile THEN OpenFails("FileNotFoundError")
     ELSE /\ send_file_name' = file_name
          /\ send_file_contents' = file
          /\ Grillo_send_message("FILE", file_name \o FILE_NAME_SEPARATOR \o file)

\* ChirpCallbacks.on_received, lines 36 to 46, and Grillo.receive_message,
\* lines 128 to 140, for the message that was sent; exists tells whether
\* the directory of the receiver holds a file of the name that was sent.
\* Line 41 decodes the whole message before anything is read.  receive_file
\* gives up at line 172 (a Path plus a str: TypeError) when Path(".") / name
\* exists, which the directory itself does for the empty name; the file is
\* written, with name and file_contents, at lines 174 and 175.
Grillo_receive_message(exists) ==
  /\ gpc = "sent"
  /\ IF ~WellFormedUtf8(grillo_message)
       THEN /\ gpc' = "UnicodeDecodeError"
            /\ UNCHANGED <<read_kind, read_payload, name, file_contents>>
       ELSE LET read == read_message(grillo_message) IN
            /\ read_kind' = read[1]
            /\ read_payload' = read[2]
            /\ IF read[1] = "ValueError"
                 THEN gpc' = "ValueError" /\ UNCHANGED <<name, file_contents>>
                 ELSE IF read[1] = "FILE"
                   THEN IF exists \/ receive_file(read[2])[1] = <<>>
                          THEN /\ gpc' = "TypeError"
                               /\ UNCHANGED <<name, file_contents>>
                          ELSE /\ gpc' = "received"
                               /\ name' = receive_file(read[2])[1]
                               /\ file_contents' = receive_file(read[2])[2]
                   ELSE /\ gpc' = "received"
                        /\ UNCHANGED <<name, file_contents>>
  /\ UNCHANGED <<kind, payload, grillo_message, send_file_name,
                 send_file_contents>>
  /\ UNCHANGED <<sender_vars, air_vars, receiver_vars, book_vars, listen_vars,
                 callback_vars, owner_vars>>

GrilloNext ==
  \/ \E text \in Texts : send_text(text)
  \/ \E paste \in Texts : send_clipboard(paste)
  \/ \E file_name \in TokenStrings(MaxTokens), file \in Files :
       send_file(file_name, file)
  \/ \E exists \in BOOLEAN : Grillo_receive_message(exists)

GrilloSpec == Init /\ [][GrilloNext]_vars

\* ------------------------------------------- send_message called again
\* One sender and one receiver in confirmed mode, and nobody else on the
\* air.  The sender may call send_message again once a call has returned.

\* Modem.__init__(with_confirmation=True) on both ends
CallbackInit == Init /\ with_confirmation

\* send_message, lines 83 to 87, called again after a call that returned
SendAgain(m) ==
  /\ spc = "done"
  /\ later_sends < LaterSends
  /\ Intruded < Intrusions
  /\ later_sends' = later_sends + 1
  /\ message' = m
  /\ LET cl == _get_chain_len(Len(m)) IN
       IF cl > MAX_CHAIN
         THEN /\ spc' = "MessageTooLongException"
              /\ UNCHANGED <<chain_len, packets_to_send, send_pos>>
         ELSE /\ spc' = "send_packets"
              /\ chain_len' = cl
              /\ packets_to_send' = Range(cl)
              /\ send_pos' = 1
  /\ receiver_packet' = NoPacket
  /\ wait_elapsed' = 0
  /\ ack_msg' = NoPacket
  /\ round_sent' = <<>>
  /\ rounds' = 0
  /\ wait_got' = {}
  /\ UNCHANGED with_confirmation
  /\ UNCHANGED <<air_vars, receiver_vars>>
  /\ UNCHANGED <<lost_data, lost_idx, lost_round, lost_acks, foreign, rx_total>>
  /\ UNCHANGED <<listen_vars, grillo_vars, cb_pc, cb_packet, cb_lag, owner_vars>>

CallbackNext ==
  \/ \E m \in Messages : SendMessage(m)
  \/ \E m \in Messages : SendAgain(m)
  \/ \E t \in Timeouts : ReceiveMessage(t)
  \/ SenderStep
  \/ ReceiverStep
  \/ on_chained_part_received
  \/ OwnerStep
  \/ Tick

CallbackSpec == CallbackInit /\ [][CallbackNext]_vars

\* ----------------------------------------------------------------- claims
SenderFinished == spc \in {"done", "MessageTooLongException", "MessageAckIsBroken"}

\* ceil(a / b), as the specification counts chunks
CeilDiv(a, b) == (a + b - 1) \div b

\* C1: round trip over a lossless channel.  For a message of length
\* 0 <= L <= 255 * 30, once send_message has finished and every packet it
\* emitted was delivered to on_chained_part_received, what receive_message
\* returns is the message.  (Stated for a receiving Modem whose owner calls
\* nothing but receive_message.)
C1_RoundTrip ==
  (/\ Undisturbed
   /\ SenderFinished
   /\ Len(message) <= MAX_CHAIN * DATA_LEN
   /\ lost_data = 0
   /\ rpc = "returned")
  => chained_message = message

\* C9: send_message raises MessageTooLongException exactly when the message
\* needs more than 255 chunks of DATA_LEN bytes, and then nothing was handed
\* to the transport.
C9_OversizeExactly ==
  spc # "idle" =>
    /\ (spc = "MessageTooLongException")
         <=> (CeilDiv(Len(message), DATA_LEN) > MAX_CHAIN)
    /\ spc = "MessageTooLongException"
         => (round_sent = <<>> /\ rounds = 0 /\ s_air = NoPacket)

\* C10: the total_chunks stamped in every packet of a message of len bytes is
\* ceil(len / DATA_LEN), and the last chunk carries
\* len - DATA_LEN * (total_chunks - 1) bytes.  (Stated for len > 0: the empty
\* message, for which the ceiling is 0 chunks, is left aside.)
C10_ChunkCountIsCeil ==
  (s_air # NoPacket /\ Len(message) > 0) =>
    /\ s_air[1] = CeilDiv(Len(message), DATA_LEN)
    /\ s_air[2] = s_air[1] - 1
         => Len(s_air) - 2 = Len(message) - DATA_LEN * (s_air[1] - 1)

\* the packet of chunk i as the claims describe it: the header bytes
\* total_chunks and chunk_index, then bytes 30 i + 1 .. 30 (i + 1) of the message
ChunkOf(i) ==
  <<chain_len, i>>
    \o [j \in 1..Max(0, Min(DATA_LEN, Len(message) - DATA_LEN * i)) |->
          message[DATA_LEN * i + j]]

\* C3: no partial or corrupt delivery.  When the owner of the receiving
\* Modem makes no other call, the value receive_message builds and returns
\* is None or the message given to send_message (once send_message was
\* called again: one of the messages it can be given), and the step that
\* builds it finds a part in the buffer for every index below total_chunks
\* and builds the concatenation of these parts in the order of the indices.
C3_NoPartialDelivery ==
  /\ []((Undisturbed /\ chained_message # NoPacket) =>
          \/ chained_message = message
          \/ later_sends > 0 /\ chained_message \in Messages)
  /\ [][(/\ Undisturbed'
          /\ chained_message' # chained_message
          /\ chained_message' # NoPacket)
         => /\ rpc' = "line_195"
            /\ chained_total_parts # None
            /\ \A i \in 0..(chained_total_parts - 1) : i \in DOMAIN chained_parts
            /\ chained_message' = chained_combine]_vars

\* the packets of the chunks listed, in the order of the list
ChunksOf(list) == [n \in 1..Len(list) |-> ChunkOf(list[n])]

\* C6: selective retransmission.  The ack with marker 0 that was received
\* in the ack wait is what receive_packet returns; after such an ack with a
\* non-empty list, the round that follows sends the chunks listed in the
\* ack, in its order and no other, and is followed by an ack wait; after an
\* ack with an empty list send_message is done and transmits nothing.
C6_SelectiveRetransmission ==
  /\ [][(spc = "line_157" /\ spc' # spc) =>
          \A ack \in wait_got :
            (wait_got = {ack} /\ ack[1] = 0) => ack_msg' = ack]_vars
  /\ []((ack_msg # NoPacket /\ ack_msg[1] = 0 /\ Len(ack_msg) > 1) =>
          /\ packets_to_send = Tail(ack_msg)
          /\ spc \in {"send_packets", "sending", "receive_packet",
                      "line_156", "line_157"}
          /\ spc = "send_packets" =>
               round_sent = SubSeq(ChunksOf(Tail(ack_msg)), 1, send_pos - 1)
          /\ spc = "sending" =>
               /\ round_sent = SubSeq(ChunksOf(Tail(ack_msg)), 1, send_pos)
               /\ s_air = ChunkOf(ack_msg[send_pos + 1])
          /\ spc \in {"receive_packet", "line_156", "line_157"} =>
               round_sent = ChunksOf(Tail(ack_msg)))
  /\ [](ack_msg = <<0>> => (spc = "done" /\ s_air = NoPacket))

\* C7: no ack means done.  When receive_packet returns from an ack wait in
\* which no packet arrived, the wait has lasted the round timeout,
\* send_message is done, nothing more is transmitted and no other wait
\* starts.
C7_NoAckMeansDone ==
  [][(spc = "line_157" /\ spc' # spc /\ wait_got = {})
       => /\ WaitExpired
          /\ spc' = "done"
          /\ ack_msg' = NoPacket
          /\ s_air' = NoPacket
          /\ round_sent' = round_sent]_vars

\* C7 witness: send_message returned after a wait in which no packet came.
C7_Witness ==
  /\ spc = "done"
  /\ with_confirmation
  /\ rounds = 1
  /\ ack_msg = NoPacket
  /\ wait_got = {}
  /\ ~foreign

\* C8: a corrupted ack is fatal.  When receive_packet returns from an ack
\* wait in which a packet with a first byte other than 0 was received,
\* send_message raises MessageAckIsBroken; it has raised it exactly when the
\* packet the wait returned has such a first byte, and then nothing is on
\* the air.
C8_CorruptedAckFatal ==
  /\ [][(spc = "line_157" /\ spc' # spc) =>
          \A got \in wait_got :
            got[1] # 0 => spc' = "MessageAckIsBroken"]_vars
  /\ []((ack_msg # NoPacket /\ ack_msg[1] # 0) =>
          (spc = "MessageAckIsBroken" /\ s_air = NoPacket))
  /\ [](spc = "MessageAckIsBroken" => (ack_msg # NoPacket /\ ack_msg[1] # 0))

\* C2: confirmed-mode recovery.  With one chunk k of a message of two or more
\* chunks lost on the first transmission (so that the receiver hears the
\* message at all), nothing else lost, no foreign packet and no other call
\* of the receiver's owner: every ack the
\* receiver transmits asks for exactly [k] or is the final empty ack, the
\* sender retransmits only chunk k, and when both sides are done the message
\* was returned after that single extra round.
C2_SingleDropRecovery ==
  (/\ Undisturbed
   /\ with_confirmation /\ chain_len >= 2
   /\ lost_data = 1 /\ lost_round = 0 /\ ~lost_acks /\ ~foreign)
  => /\ r_air # NoPacket => r_air \in {<<0, lost_idx>>, <<0>>}
     /\ (rounds >= 1 /\ spc \in {"send_packets", "sending"})
          => packets_to_send = <<lost_idx>>
     /\ (spc = "done" /\ rpc = "returned")
          => (chained_message = message /\ rounds = 2)

\* the length of the overall window, with an allowance for what the loop may
\* add before it looks at the clock: two blocking send_ack and one iteration
Deadline == 100 * timeout + 2 * PACKET_DURATION + TICK

\* the buffer of the running receive_message does not hold the whole message
Incomplete == chained_total_parts = None \/ chained_missing_parts # <<>>

\* C4: receive terminates by the overall timeout.  With a non-zero overall
\* timeout, when the message cannot complete any more (the sender is gone and
\* nothing is on the air), receive_message is not still running once the
\* overall window has passed, whatever arrived or was acked before, as long
\* as the owner has called nothing else of the Modem.
C4_ReceiveAbandonsByOverallTimeout ==
  (/\ Undisturbed
   /\ Running
   /\ timeout # 0
   /\ SenderFinished /\ s_air = NoPacket
   /\ Incomplete)
  => rx_total <= Deadline

\* C5: send always terminates.  A send_message that has started sending
\* eventually returns or raises, when the owner of the receiving Modem
\* leaves it alone.
C5_SendTerminates ==
  (spc = "send_packets") ~> (SenderFinished \/ ~Undisturbed)

\* C11: brave mode disables the acknowledgment protocol.  With
\* with_confirmation = False no ack packet is ever transmitted and no ack is
\* ever waited for, neither by send_message nor by receive_message (whose
\* owner calls nothing else).
C11_BraveDisablesAcks ==
  (Undisturbed /\ ~with_confirmation) =>
    /\ spc # "receive_packet"
    /\ r_air = NoPacket
    /\ rpc \notin {"send_ack_retry", "send_ack_done"}

\* the data bytes of a packet
DataOf(p) == SubSeq(p, 3, Len(p))

\* C12: arrival-order independence.  When the callbacks of a running
\* receive_message have got the packets of one message, each once and in
\* whatever order, and have stored them and nothing else, and the owner has
\* not reset the buffer or replaced the callbacks meanwhile, the buffer is
\* complete and chained_combine is that message; what receive_message builds
\* from it is that message.
C12_ArrivalOrderIndependence ==
  \A m \in {ListenMessage, OtherMessage} :
    (/\ Undisturbed
     /\ Running
     /\ cb_pc = "idle"
     /\ heard = PacketsOf(m)
     /\ heard_count = Cardinality(PacketsOf(m))
     /\ stored = heard)
    => /\ chained_total_parts = Cardinality(PacketsOf(m))
       /\ chained_missing_parts = <<>>
       /\ chained_combine = m
       /\ chained_message \in {NoPacket, m}

\* C12 witness: the three packets came with index 0 last, and the message
\* was built.
C12_Witness ==
  /\ heard = PacketsOf(ListenMessage)
  /\ heard_count = 3
  /\ stored = heard
  /\ last_heard[2] = 0
  /\ rpc = "send_ack_done"
  /\ chained_message = ListenMessage

\* C13: duplicate idempotence.  When a statement of the callback runs for a
\* packet whose index the buffer holds with the data of that packet,
\* total_chunks, the stored parts, the missing indices and hence the
\* completion state are the same after the statement as before.
C13_DuplicateIdempotence ==
  [][(/\ cb_pc # "idle"
      /\ cb_pc' # cb_pc
      /\ chained_total_parts # None
      /\ cb_packet[2] \in DOMAIN chained_parts
      /\ chained_parts[cb_packet[2]] = DataOf(cb_packet))
     => /\ chained_total_parts' = chained_total_parts
        /\ chained_parts' = chained_parts
        /\ MissingFrom(chained_parts', chained_total_parts', 0)
             = chained_missing_parts]_vars

\* C13 witness: a packet came twice and was stored twice while another part
\* was still missing.
C13_Witness ==
  /\ Running
  /\ heard_count = 2
  /\ Cardinality(heard) = 1
  /\ stored = heard
  /\ cb_pc = "line_227"
  /\ cb_packet \in PacketsOf(ListenMessage)
  /\ chained_missing_parts # <<>>
  /\ DOMAIN chained_parts = {cb_packet[2]}

\* C14: missing-index computation.  Whenever total_chunks is known,
\* chained_missing_parts is the list, ascending and without repetition, of
\* exactly the indices of 0..total_chunks-1 that are not keys of the buffer;
\* keys at or above total_chunks change nothing of it.
C14_MissingIndices ==
  chained_total_parts # None =>
    LET missing == chained_missing_parts IN
      /\ {missing[i] : i \in DOMAIN missing}
           = {j \in 0..(chained_total_parts - 1) : j \notin DOMAIN chained_parts}
      /\ \A i \in 1..(Len(missing) - 1) : missing[i] < missing[i + 1]

\* C14 witness: of a message of 3 chunks the indices 0 and 2 are stored,
\* with an index that is none of the message, and the list is [1].
C14_Witness ==
  /\ chained_total_parts = 3
  /\ DOMAIN chained_parts = {0, 2, LongChain - 1}
  /\ chained_missing_parts = <<1>>

\* C15: a new message restarts the reassembly.  When the callback stores a
\* packet with chunk_index 0 of another message (its total_chunks is not the
\* one in progress) while the buffer is incomplete and the owner has not
\* touched it, the buffer after that has the total_chunks of that packet and
\* its chunk 0 as the only stored chunk.
C15_NewMessageRestarts ==
  [][(/\ Undisturbed
      /\ cb_pc = "line_223"
      /\ cb_pc' = "line_227"
      /\ cb_packet[2] = 0
      /\ chained_total_parts # None
      /\ chained_missing_parts # <<>>
      /\ cb_packet[1] # chained_total_parts)
     => /\ chained_total_parts' = cb_packet[1]
        /\ DOMAIN chained_parts' = {0}
        /\ chained_parts'[0] = DataOf(cb_packet)]_vars

\* C16: reset on terminal state.  With no other call of the owner: when
\* receive_message has returned, by completion or by timeout, total_chunks
\* is unknown, no chunk is stored and no callback is registered;
\* and while a call of receive_message made by listen_for_messages runs, its
\* buffer holds nothing but what its own callback got: total_chunks is that
\* of a packet of this call, and every stored chunk is the data of a packet
\* of this call under that packet's index.
C16_ResetOnReturn ==
  Undisturbed =>
  /\ rpc = "returned" =>
       (chained_total_parts = None /\ chained_parts = <<>> /\ ~Listening)
  /\ Running =>
       /\ chained_total_parts # None =>
            \E p \in heard : p[1] = chained_total_parts
       /\ \A i \in DOMAIN chained_parts :
            \E p \in heard : p[2] = i /\ chained_parts[i] = DataOf(p)

\* the indices below total_chunks that the buffer does not hold
Absent == {j \in 0..(chained_total_parts - 1) : j \notin DOMAIN chained_parts}

C18_AckTrigger ==
  [][Undisturbed' =>
     /\ (rpc \in {"line_182", "line_182_timeout"} /\ rpc' = "line_184") =>
          /\ chained_total_parts # None
          /\ heard # {}
          /\ \/ (IF last_expected_part = None THEN chained_total_parts - 1
                   ELSE last_expected_part) \in DOMAIN chained_parts
             \/ part_elapsed + SLEEP > ATTEMPT_TIMEOUT
     /\ last_expected_part' # last_expected_part =>
          \/ rpc' = "send_ack_retry" /\ last_expected_part' = r_air'[Len(r_air')]
          \/ last_expected_part = None
               /\ last_expected_part' = chained_total_parts - 1
          \/ rpc \in {"idle", "line_256"} /\ last_expected_part' = None]_vars

\* C19: framing round trip.  What read_message returns for the serialized
\* message of a kind and a payload is that kind and that payload, whatever
\* bytes and separators the payload holds; and for a file whose name does
\* not hold b"<NAME>", the split of receive_file gives that name and those
\* contents, whatever the contents hold.  So it is for every message that
\* was handed to the transport, and receive_message has read just that when
\* it got to the end.
C19_FramingRoundTrip ==
  /\ gpc \in {"received", "TypeError", "UnicodeDecodeError"} =>
       /\ read_message(grillo_message) = <<kind, payload>>
       /\ (kind = "FILE" /\ ~Contains(send_file_name, FILE_NAME_SEPARATOR)) =>
            receive_file(payload) = <<send_file_name, send_file_contents>>
  /\ gpc = "received" =>
       /\ read_kind = kind
       /\ read_payload = payload
       /\ (kind = "FILE" /\ ~Contains(send_file_name, FILE_NAME_SEPARATOR)) =>
            (name = send_file_name /\ file_contents = send_file_contents)

\* C19 witness: a file whose contents hold b"|" and b"<NAME>" was read.
C19_Witness ==
  /\ gpc = "received"
  /\ kind = "FILE"
  /\ send_file_name = <<97, 60>>
  /\ send_file_contents = HEADER_SEPARATOR \o FILE_NAME_SEPARATOR
  /\ name = send_file_name
  /\ file_contents = send_file_contents

\* C20: data and ack packets are never confused.  Every packet send_message
\* hands to the transport has a first byte total_chunks in 1..255, a second
\* byte chunk_index with 0 <= chunk_index < total_chunks and at most DATA_LEN
\* data bytes, and _get_packets_to_retry would not take it for an ack.
C20_DataNeverAck ==
  s_air # NoPacket =>
    /\ s_air[1] \in 1..MAX_CHAIN
    /\ 0 <= s_air[2] /\ s_air[2] < s_air[1]
    /\ Len(s_air) - 2 <= DATA_LEN
    /\ _get_packets_to_retry(s_air) = AckIsBroken

\* C21: confirmation is sound.  With one sender and one receiver in
\* confirmed mode, the receiver's owner calling nothing but receive_message,
\* wherever the loop of receive_message falls between the
\* statements of the callback: while the receiver transmits an ack with an
\* empty list, its buffer holds every index below its total_chunks; and
\* when send_message has returned because it received an empty ack,
\* receive_message has left its loop and returns the message that call was
\* given.
C21_ConfirmationIsSound ==
  Undisturbed =>
  /\ r_air = <<0>> =>
       /\ chained_total_parts # None
       /\ \A i \in 0..(chained_total_parts - 1) : i \in DOMAIN chained_parts
  /\ (spc = "done" /\ ack_msg = <<0>>) =>
       (rpc \in Returning \cup {"returned"} /\ chained_message = message)

====
